---------------------------- MODULE Spec2Model ----------------------------
(***************************************************************************)
(* A model of SymbolicDifferentiation/SymExp.h: the expression tree        *)
(* (namespace AST: Value, Symbol, Neg, Add, Sub, Mul, Div, Pow, Exp, Log)  *)
(* and the value-semantics handle SymExp / Var.                            *)
(*                                                                         *)
(* The header defines Value and Symbol completely, every Clone, to_string, *)
(* has_value and value.  The bodies the header only declares (Eval, Derive *)
(* and Simplify of the eight composite nodes, the SymExp members, the      *)
(* initial value of Symbol::counter) are modelled from the specification.  *)
(*                                                                         *)
(* Numbers.  A double is modelled exactly: a rational <<"q", n, d>>, one   *)
(* of the IEEE values <<"inf">>, <<"ninf">>, <<"nan">>, or, for a result   *)
(* that is irrational (exp 2, log 3) or too large for the checker's        *)
(* integers, the term that denotes it (<<"exp", a>>, <<"add", a, b>>...).  *)
(* Rounding and the sign of zero are not modelled.                         *)
(***************************************************************************)
EXTENDS Integers, Sequences, FiniteSets, TLC

\* ------------------------------------------------------------------------
\* Bounds of the model
\* ------------------------------------------------------------------------

\* Largest number of nodes of an expression the client builds.
MaxNodes == 4

\* Literal leaves are 0 .. MaxLit.
MaxLit == 2

\* Numerators and denominators beyond Cap are kept as terms.
Cap == 10000

\* ------------------------------------------------------------------------
\* double arithmetic
\* ------------------------------------------------------------------------

Abs(i) == IF i < 0 THEN -i ELSE i

RECURSIVE Gcd(_, _)
Gcd(a, b) == IF b = 0 THEN a ELSE Gcd(b, a % b)

Q(n, d) == <<"q", n, d>>
Inf == <<"inf">>
NInf == <<"ninf">>
NaN == <<"nan">>
Zero == Q(0, 1)
One == Q(1, 1)
Int2Num(i) == Q(i, 1)

IsQ(a) == a[1] = "q"
IsNaN(a) == a = NaN
IsInfinite(a) == a = Inf \/ a = NInf
\* std::isfinite: rationals and symbolic terms.
IsFinite(a) == ~IsNaN(a) /\ ~IsInfinite(a)
IsInt(a) == IsQ(a) /\ a[3] = 1

\* The rational n/d (d # 0) in lowest terms, or the term sym when it does
\* not fit under Cap.
Norm(n, d, sym) ==
    LET g == Gcd(Abs(n), Abs(d))
        s == IF d < 0 THEN -1 ELSE 1
        nn == s * (n \div g)
        dd == s * (d \div g)
    IN IF Abs(nn) <= Cap /\ dd <= Cap THEN Q(nn, dd) ELSE sym

\* -1, 0 or 1.  Exact for rationals and infinities; for a term, what its
\* shape decides (exp is positive, log q follows q against 1), else 1.
RECURSIVE Sign(_)
Sign(a) ==
    CASE IsQ(a) -> (IF a[2] < 0 THEN -1 ELSE IF a[2] = 0 THEN 0 ELSE 1)
      [] a = Inf -> 1
      [] a = NInf -> -1
      [] a[1] = "neg" -> -Sign(a[2])
      [] a[1] = "log" /\ IsQ(a[2]) -> (IF a[2][2] < a[2][3] THEN -1 ELSE 1)
      [] OTHER -> 1

SignedInf(s) == IF s < 0 THEN NInf ELSE Inf

\* -a
NumNeg(a) ==
    CASE IsNaN(a) -> NaN
      [] a = Inf -> NInf
      [] a = NInf -> Inf
      [] IsQ(a) -> Q(-a[2], a[3])
      [] a[1] = "neg" -> a[2]
      [] OTHER -> <<"neg", a>>

\* a + b
NumAdd(a, b) ==
    CASE IsNaN(a) \/ IsNaN(b) -> NaN
      [] IsInfinite(a) /\ IsInfinite(b) -> (IF a = b THEN a ELSE NaN)
      [] IsInfinite(a) -> a
      [] IsInfinite(b) -> b
      [] IsQ(a) /\ IsQ(b) ->
            Norm(a[2] * b[3] + b[2] * a[3], a[3] * b[3], <<"add", a, b>>)
      [] a = Zero -> b
      [] b = Zero -> a
      [] OTHER -> <<"add", a, b>>

\* a - b
NumSub(a, b) ==
    CASE IsNaN(a) \/ IsNaN(b) -> NaN
      [] IsInfinite(a) /\ IsInfinite(b) -> (IF a = b THEN NaN ELSE a)
      [] IsInfinite(a) -> a
      [] IsInfinite(b) -> NumNeg(b)
      [] IsQ(a) /\ IsQ(b) ->
            Norm(a[2] * b[3] - b[2] * a[3], a[3] * b[3], <<"sub", a, b>>)
      [] b = Zero -> a
      [] a = Zero -> NumNeg(b)
      [] a = b -> Zero
      [] OTHER -> <<"sub", a, b>>

\* a * b
NumMul(a, b) ==
    CASE IsNaN(a) \/ IsNaN(b) -> NaN
      [] IsInfinite(a) \/ IsInfinite(b) ->
            (IF a = Zero \/ b = Zero THEN NaN ELSE SignedInf(Sign(a) * Sign(b)))
      [] IsQ(a) /\ IsQ(b) -> Norm(a[2] * b[2], a[3] * b[3], <<"mul", a, b>>)
      [] a = Zero \/ b = Zero -> Zero
      [] a = One -> b
      [] b = One -> a
      [] OTHER -> <<"mul", a, b>>

\* a / b
NumDiv(a, b) ==
    CASE IsNaN(a) \/ IsNaN(b) -> NaN
      [] IsInfinite(a) /\ IsInfinite(b) -> NaN
      [] IsInfinite(a) -> SignedInf(Sign(a) * (IF Sign(b) < 0 THEN -1 ELSE 1))
      [] IsInfinite(b) -> Zero
      [] b = Zero -> (IF a = Zero THEN NaN ELSE SignedInf(Sign(a)))
      [] IsQ(a) /\ IsQ(b) -> Norm(a[2] * b[3], a[3] * b[2], <<"div", a, b>>)
      [] a = Zero -> Zero
      [] b = One -> a
      [] a = b -> One
      [] OTHER -> <<"div", a, b>>

\* std::exp
NumExp(a) ==
    CASE IsNaN(a) -> NaN
      [] a = Inf -> Inf
      [] a = NInf -> Zero
      [] a = Zero -> One
      [] a[1] = "log" -> a[2]
      [] OTHER -> <<"exp", a>>

\* std::log
NumLog(a) ==
    CASE IsNaN(a) -> NaN
      [] a = Inf -> Inf
      [] a = NInf -> NaN
      [] a = Zero -> NInf
      [] a = One -> Zero
      [] Sign(a) < 0 -> NaN
      [] a[1] = "exp" -> a[2]
      [] OTHER -> <<"log", a>>

\* acc * b^k for integers b >= 0 and k >= 0; Cap + 1 once it passes Cap.
RECURSIVE IPowAcc(_, _, _)
IPowAcc(b, k, acc) ==
    IF k = 0 THEN acc
    ELSE IF b <= 1 THEN acc * b
    ELSE IF acc * b > Cap THEN Cap + 1
    ELSE IPowAcc(b, k - 1, acc * b)

IPow(b, k) == IPowAcc(b, k, 1)

\* The r >= 0 with r^k = n when there is one, else -1 (n >= 0, k >= 1).
IRoot(n, k) ==
    LET S == {r \in 0 .. n : IPow(r, k) = n}
    IN IF S = {} THEN -1 ELSE CHOOSE r \in S : TRUE

\* (n/d)^k for an integer k.
QPowInt(a, k, sym) ==
    LET pn == IPow(Abs(a[2]), Abs(k))
        pd == IPow(a[3], Abs(k))
        s == IF a[2] < 0 /\ k % 2 = 1 THEN -1 ELSE 1
    IN IF pn > Cap \/ pd > Cap THEN sym
       ELSE IF k >= 0 THEN Q(s * pn, pd)
       ELSE IF pn = 0 THEN Inf
       ELSE Q(s * pd, pn)

\* std::pow
NumPow(a, b) ==
    CASE b = Zero -> One
      [] a = One -> One
      [] IsNaN(a) \/ IsNaN(b) -> NaN
      [] b = Inf ->
            (IF a = Q(-1, 1) THEN One
             ELSE IF IsQ(a) /\ Abs(a[2]) < a[3] THEN Zero ELSE Inf)
      [] b = NInf ->
            (IF a = Q(-1, 1) THEN One
             ELSE IF IsQ(a) /\ Abs(a[2]) < a[3] THEN Inf ELSE Zero)
      [] a = Inf -> (IF Sign(b) < 0 THEN Zero ELSE Inf)
      [] a = NInf ->
            (IF Sign(b) < 0 THEN Zero
             ELSE IF IsInt(b) /\ b[2] % 2 = 1 THEN NInf ELSE Inf)
      [] b = One -> a
      [] IsQ(a) /\ IsInt(b) ->
            (IF Abs(b[2]) > Cap THEN <<"pow", a, b>>
             ELSE QPowInt(a, b[2], <<"pow", a, b>>))
      [] a = Zero -> (IF Sign(b) < 0 THEN Inf ELSE Zero)
      [] IsQ(a) /\ IsQ(b) ->
            (IF a[2] < 0 THEN NaN
             ELSE LET rn == IRoot(a[2], b[3])
                      rd == IRoot(a[3], b[3])
                  IN IF rn < 0 \/ rd < 0 \/ Abs(b[2]) > Cap THEN <<"pow", a, b>>
                     ELSE QPowInt(Q(rn, rd), b[2], <<"pow", a, b>>))
      [] OTHER -> <<"pow", a, b>>

\* std::to_string(double): "%f", six decimals.
RECURSIVE FracAcc(_, _, _, _)
FracAcc(rem, d, k, acc) ==
    IF k = 0 THEN <<acc, rem>>
    ELSE FracAcc((rem * 10) % d, d, k - 1, acc * 10 + (rem * 10) \div d)

Pad6(f) ==
    (IF f < 10 THEN "00000"
     ELSE IF f < 100 THEN "0000"
     ELSE IF f < 1000 THEN "000"
     ELSE IF f < 10000 THEN "00"
     ELSE IF f < 100000 THEN "0"
     ELSE "") \o ToString(f)

NumToString(a) ==
    CASE IsNaN(a) -> "nan"
      [] a = Inf -> "inf"
      [] a = NInf -> "-inf"
      [] IsQ(a) ->
            LET ip == Abs(a[2]) \div a[3]
                fr == FracAcc(Abs(a[2]) % a[3], a[3], 6, 0)
                up == 2 * fr[2] >= a[3]
                f1 == IF up THEN fr[1] + 1 ELSE fr[1]
                carry == f1 = 1000000
            IN (IF a[2] < 0 THEN "-" ELSE "")
                 \o ToString(IF carry THEN ip + 1 ELSE ip)
                 \o "." \o Pad6(IF carry THEN 0 ELSE f1)
      [] OTHER -> ToString(a)

\* ------------------------------------------------------------------------
\* namespace AST: the ten node classes
\* ------------------------------------------------------------------------

Value(val) == <<"Value", val>>
Symbol(name) == <<"Symbol", name>>
Neg(node) == <<"Neg", node>>
Add(l, r) == <<"Add", l, r>>
Sub(l, r) == <<"Sub", l, r>>
Mul(l, r) == <<"Mul", l, r>>
Div(l, r) == <<"Div", l, r>>
Pow(l, r) == <<"Pow", l, r>>
Exp(node) == <<"Exp", node>>
Log(node) == <<"Log", node>>

Unary == {"Neg", "Exp", "Log"}
Binary == {"Add", "Sub", "Mul", "Div", "Pow"}

\* Node::has_value / Value::has_value
has_value(n) == n[1] = "Value"

\* Value::value (a Value node only)
value(n) == n[2]

IsLit(n, v) == has_value(n) /\ value(n) = v

\* Value::Clone
ValueClone(n) == Value(n[2])

\* Symbol::Clone
SymbolClone(n) == Symbol(n[2])

\* Node::Clone, per class: a node of the same class over cloned children.
RECURSIVE Clone(_)
Clone(n) ==
    CASE n[1] = "Value" -> ValueClone(n)
      [] n[1] = "Symbol" -> SymbolClone(n)
      [] n[1] \in Unary -> <<n[1], Clone(n[2])>>
      [] n[1] \in Binary -> <<n[1], Clone(n[2]), Clone(n[3])>>

\* Node::to_string, per class.
RECURSIVE to_string(_)
to_string(n) ==
    CASE n[1] = "Value" -> NumToString(n[2])
      [] n[1] = "Symbol" -> n[2]
      [] n[1] = "Neg" -> "-(" \o to_string(n[2]) \o ")"
      [] n[1] = "Add" -> "(" \o to_string(n[2]) \o " + " \o to_string(n[3]) \o ")"
      [] n[1] = "Sub" -> "(" \o to_string(n[2]) \o " - " \o to_string(n[3]) \o ")"
      [] n[1] = "Mul" -> "(" \o to_string(n[2]) \o " * " \o to_string(n[3]) \o ")"
      [] n[1] = "Div" -> "(" \o to_string(n[2]) \o " / " \o to_string(n[3]) \o ")"
      [] n[1] = "Pow" -> "pow(" \o to_string(n[2]) \o ", " \o to_string(n[3]) \o ")"
      [] n[1] = "Exp" -> "exp(" \o to_string(n[2]) \o ")"
      [] n[1] = "Log" -> "log(" \o to_string(n[2]) \o ")"

\* Value::Eval
ValueEval(n, s, val) == Clone(n)

\* Faulty variants of Symbol::Eval: one that never substitutes, one that
\* substitutes whatever the symbol's name.
SymbolEvalNever(n, s, val) == Clone(n)
SymbolEvalAlways(n, s, val) == Value(val)

\* Symbol::Eval: the Value when the names agree, else a clone.
SymbolEval(n, s, val) == IF s = n[2] THEN Value(val) ELSE Clone(n)

\* Node::Eval(const Symbol& s, double value), per class.  Value and Symbol
\* are the header's; a composite node rebuilds itself over its children's
\* results.
RECURSIVE Eval(_, _, _)
Eval(n, s, val) ==
    CASE n[1] = "Value" -> ValueEval(n, s, val)
      [] n[1] = "Symbol" -> SymbolEval(n, s, val)
      [] n[1] \in Unary -> <<n[1], Eval(n[2], s, val)>>
      [] n[1] \in Binary -> <<n[1], Eval(n[2], s, val), Eval(n[3], s, val)>>

\* Value::Derive
ValueDerive(n, s) == Value(Zero)

\* Faulty variants of Symbol::Derive: every symbol a constant, every symbol
\* the variable.
SymbolDeriveZero(n, s) == Value(Zero)
SymbolDeriveOne(n, s) == Value(One)

\* Symbol::Derive
SymbolDerive(n, s) == Value(Int2Num(IF s = n[2] THEN 1 ELSE 0))

\* Node::Derive(const Symbol& s), per class.
RECURSIVE Derive(_, _)
Derive(n, s) ==
    CASE n[1] = "Value" -> ValueDerive(n, s)
      [] n[1] = "Symbol" -> SymbolDerive(n, s)
      [] n[1] = "Neg" -> Neg(Derive(n[2], s))
      [] n[1] = "Add" -> Add(Derive(n[2], s), Derive(n[3], s))
      [] n[1] = "Sub" -> Sub(Derive(n[2], s), Derive(n[3], s))
      [] n[1] = "Mul" ->
            Add(Mul(Derive(n[2], s), Clone(n[3])),
                Mul(Clone(n[2]), Derive(n[3], s)))
      [] n[1] = "Div" ->
            Div(Sub(Mul(Derive(n[2], s), Clone(n[3])),
                    Mul(Clone(n[2]), Derive(n[3], s))),
                Mul(Clone(n[3]), Clone(n[3])))
      [] n[1] = "Pow" ->
            Mul(Pow(Clone(n[2]), Clone(n[3])),
                Add(Mul(Derive(n[3], s), Log(Clone(n[2]))),
                    Mul(Clone(n[3]), Div(Derive(n[2], s), Clone(n[2])))))
      [] n[1] = "Exp" -> Mul(Exp(Clone(n[2])), Derive(n[2], s))
      [] n[1] = "Log" -> Div(Derive(n[2], s), Clone(n[2]))

\* Constant folding: the operator of class k applied to literal values.
Fold1(k, a) ==
    CASE k = "Neg" -> NumNeg(a)
      [] k = "Exp" -> NumExp(a)
      [] k = "Log" -> NumLog(a)

Fold2(k, a, b) ==
    CASE k = "Add" -> NumAdd(a, b)
      [] k = "Sub" -> NumSub(a, b)
      [] k = "Mul" -> NumMul(a, b)
      [] k = "Div" -> NumDiv(a, b)
      [] k = "Pow" -> NumPow(a, b)

\* Neg::Simplify, over the simplified child.
NegSimplify(a) ==
    IF has_value(a) THEN Value(NumNeg(value(a)))
    ELSE IF a[1] = "Neg" THEN a[2]
    ELSE Neg(a)

\* Add::Simplify, over the simplified children.
AddSimplify(l, r) ==
    IF has_value(l) /\ has_value(r) THEN Value(NumAdd(value(l), value(r)))
    ELSE IF IsLit(r, Zero) THEN l
    ELSE IF IsLit(l, Zero) THEN r
    ELSE Add(l, r)

\* Sub::Simplify
SubSimplify(l, r) ==
    IF has_value(l) /\ has_value(r) THEN Value(NumSub(value(l), value(r)))
    ELSE IF IsLit(r, Zero) THEN l
    ELSE IF IsLit(l, Zero) THEN Neg(r)
    ELSE Sub(l, r)

\* Mul::Simplify
MulSimplify(l, r) ==
    IF has_value(l) /\ has_value(r) THEN Value(NumMul(value(l), value(r)))
    ELSE IF IsLit(r, Zero) \/ IsLit(l, Zero) THEN Value(Zero)
    ELSE IF IsLit(r, One) THEN l
    ELSE IF IsLit(l, One) THEN r
    ELSE Mul(l, r)

\* Div::Simplify
DivSimplify(l, r) ==
    IF has_value(l) /\ has_value(r) THEN Value(NumDiv(value(l), value(r)))
    ELSE IF IsLit(r, One) THEN l
    ELSE IF IsLit(l, Zero) THEN Value(Zero)
    ELSE Div(l, r)

\* Pow::Simplify
PowSimplify(l, r) ==
    IF has_value(l) /\ has_value(r) THEN Value(NumPow(value(l), value(r)))
    ELSE IF IsLit(r, One) THEN l
    ELSE IF IsLit(r, Zero) THEN Value(One)
    ELSE IF IsLit(l, One) THEN Value(One)
    ELSE Pow(l, r)

\* Exp::Simplify
ExpSimplify(a) ==
    IF has_value(a) THEN Value(NumExp(value(a)))
    ELSE IF a[1] = "Log" THEN a[2]
    ELSE Exp(a)

\* Log::Simplify
LogSimplify(a) ==
    IF has_value(a) THEN Value(NumLog(value(a)))
    ELSE IF a[1] = "Exp" THEN a[2]
    ELSE Log(a)

\* Faulty variants of Value::Simplify: the body of Value::Derive, and a
\* sign flip.
ValueSimplifyZero(n) == Value(Zero)
ValueSimplifyNegated(n) == Value(NumNeg(n[2]))

\* Value::Simplify
ValueSimplify(n) == Clone(n)

\* Symbol::Simplify
SymbolSimplify(n) == Clone(n)

\* Node::Simplify, per class: the children first, then the node's rules.
RECURSIVE Simplify(_)
Simplify(n) ==
    CASE n[1] = "Value" -> ValueSimplify(n)
      [] n[1] = "Symbol" -> SymbolSimplify(n)
      [] n[1] = "Neg" -> NegSimplify(Simplify(n[2]))
      [] n[1] = "Add" -> AddSimplify(Simplify(n[2]), Simplify(n[3]))
      [] n[1] = "Sub" -> SubSimplify(Simplify(n[2]), Simplify(n[3]))
      [] n[1] = "Mul" -> MulSimplify(Simplify(n[2]), Simplify(n[3]))
      [] n[1] = "Div" -> DivSimplify(Simplify(n[2]), Simplify(n[3]))
      [] n[1] = "Pow" -> PowSimplify(Simplify(n[2]), Simplify(n[3]))
      [] n[1] = "Exp" -> ExpSimplify(Simplify(n[2]))
      [] n[1] = "Log" -> LogSimplify(Simplify(n[2]))

\* ------------------------------------------------------------------------
\* The expressions a client builds
\* ------------------------------------------------------------------------

Names == {"x", "y"}

Leaves ==
    {Value(Int2Num(i)) : i \in 0 .. MaxLit} \cup {Symbol(s) : s \in Names}

\* The expressions of exactly n nodes over the ten classes.
RECURSIVE TreesOfSize(_)
TreesOfSize(n) ==
    IF n = 1 THEN Leaves
    ELSE {<<k, t>> : k \in Unary, t \in TreesOfSize(n - 1)}
         \cup UNION {{<<k, l, r>> : k \in Binary, l \in TreesOfSize(i),
                                   r \in TreesOfSize(n - 1 - i)}
                     : i \in 1 .. n - 2}

Trees(m) == UNION {TreesOfSize(n) : n \in 1 .. m}

AllTrees == Trees(MaxNodes)

RECURSIVE Symbols(_)
Symbols(n) ==
    CASE n[1] = "Value" -> {}
      [] n[1] = "Symbol" -> {n[2]}
      [] n[1] \in Unary -> Symbols(n[2])
      [] n[1] \in Binary -> Symbols(n[2]) \cup Symbols(n[3])

RECURSIVE Subterms(_)
Subterms(n) ==
    CASE n[1] \in {"Value", "Symbol"} -> {n}
      [] n[1] \in Unary -> {n} \cup Subterms(n[2])
      [] n[1] \in Binary -> {n} \cup Subterms(n[2]) \cup Subterms(n[3])

Classes(n) == {t[1] : t \in Subterms(n)}

\* ------------------------------------------------------------------------
\* State
\* ------------------------------------------------------------------------

VARIABLES
    expr,     \* the expression the client built
    cur,      \* the tree of the handle the last operation returned
    prev,     \* the tree that operation was called on
    ops,      \* the operations applied so far, in order
    exc,      \* the exception the client is handling ("none": not in a handler)
    got,      \* what the last value() call did
    heap,     \* the nodes on the free store, by address
    handle,   \* the root each SymExp variable of the client owns
    assigned, \* the copy assignments the client has made
    counter,  \* Symbol::counter
    pc,       \* where each thread is in Symbol::Symbol()
    reg,      \* the counter value each thread read
    names     \* the names each thread's anonymous symbols got

treeVars == <<expr, cur, prev, ops, exc, got>>
heapVars == <<heap, handle, assigned>>
counterVars == <<counter, pc, reg, names>>
vars == <<treeVars, heapVars, counterVars>>

NoCall == <<"none">>

\* The values substituted for a variable.
EvalVals == {Int2Num(i) : i \in -1 .. MaxLit}

Last(q) == q[Len(q)]

\* ------------------------------------------------------------------------
\* class SymExp
\* ------------------------------------------------------------------------

\* SymExp::Simplify
SymExpSimplify ==
    /\ cur' = Simplify(cur)
    /\ prev' = cur
    /\ ops' = Append(ops, <<"Simplify">>)
    /\ UNCHANGED <<expr, exc, got>>

\* SymExp::Derive(const Var&)
SymExpDerive(s) ==
    /\ cur' = Derive(cur, s)
    /\ prev' = cur
    /\ ops' = Append(ops, <<"Derive", s>>)
    /\ UNCHANGED <<expr, exc, got>>

\* SymExp::Eval(const Var&, double)
SymExpEval(s, val) ==
    /\ cur' = Eval(cur, s, val)
    /\ prev' = cur
    /\ ops' = Append(ops, <<"Eval", s, val>>)
    /\ UNCHANGED <<expr, exc, got>>

\* The substitutions of Eval(vector<Var>, vector<double>) from index i on,
\* one Eval(const Var&, double) after the other.
RECURSIVE EvalSeq(_, _, _, _)
EvalSeq(n, vs, vals, i) ==
    IF i > Len(vs) THEN n
    ELSE EvalSeq(Eval(n, vs[i], vals[i]), vs, vals, i + 1)

\* A faulty Eval(vector, vector) that does not compare the lengths and
\* substitutes nothing on a mismatch.
EvalAllUnchecked(n, vs, vals) ==
    <<"return", IF Len(vs) = Len(vals) THEN EvalSeq(n, vs, vals, 1) ELSE n>>

\* SymExp::Eval(const vector<Var>&, const vector<double>&) on the tree n:
\* the error it throws, or the tree of the handle it returns.
EvalAll(n, vs, vals) ==
    IF Len(vs) # Len(vals) THEN <<"throw", "ArityMismatch">>
    ELSE <<"return", EvalSeq(n, vs, vals, 1)>>

NoResult == <<"NoResult">>

\* The call of SymExp::Eval(vector, vector); a throw leaves the caller in
\* its handler with no handle returned.
SymExpEvalAll(vs, vals) ==
    LET r == EvalAll(cur, vs, vals)
    IN /\ cur' = (IF r[1] = "throw" THEN NoResult ELSE r[2])
       /\ exc' = (IF r[1] = "throw" THEN r[2] ELSE exc)
       /\ prev' = cur
       /\ ops' = Append(ops, <<"EvalAll", vs, vals>>)
       /\ UNCHANGED <<expr, got>>

\* Node::value: "throw;" rethrows the exception being handled and, when
\* none is, calls std::terminate.
NodeValue(n, handled) ==
    IF handled = "none" THEN <<"terminate">> ELSE <<"rethrow", handled>>

\* Value::value
ValueValue(n) == <<"returned", n[2]>>

\* SymExp::value on a handle whose tree is n.
SymExpValue(n) ==
    /\ got' = <<(IF n[1] = "Value" THEN ValueValue(n) ELSE NodeValue(n, exc)), n>>
    /\ UNCHANGED <<expr, cur, prev, ops, exc>>

\* ------------------------------------------------------------------------
\* A client that simplifies what it built, pass after pass
\* ------------------------------------------------------------------------

\* Simplify passes the client runs.
MaxPasses == 2

\* No handle variables; no thread constructing an anonymous symbol.
InitNoHandles ==
    /\ heap = <<>>
    /\ handle = <<>>
    /\ assigned = 0

InitNoThreads ==
    /\ counter = 0
    /\ pc = <<>>
    /\ reg = <<>>
    /\ names = <<>>

InitBuilt ==
    /\ expr \in AllTrees
    /\ cur = expr
    /\ prev = expr
    /\ ops = <<>>
    /\ exc = "none"
    /\ got = NoCall
    /\ InitNoHandles
    /\ InitNoThreads

SimplifyPass == Len(ops) < MaxPasses /\ SymExpSimplify

NextSimplify == SimplifyPass /\ UNCHANGED <<heapVars, counterVars>>

SpecSimplify == InitBuilt /\ [][NextSimplify]_vars

\* ------------------------------------------------------------------------
\* What an expression means
\* ------------------------------------------------------------------------

Undef == <<"undef">>

Defined(v) == IF IsFinite(v) THEN v ELSE Undef

\* The number the expression denotes when each symbol s stands for env[s],
\* or Undef when an operation in it has no value there (a zero divisor, the
\* log of a number that is not positive, a literal that is not a number).
RECURSIVE Meaning(_, _)
Meaning(n, env) ==
    CASE n[1] = "Value" -> Defined(n[2])
      [] n[1] = "Symbol" -> env[n[2]]
      [] n[1] \in Unary ->
            LET a == Meaning(n[2], env)
            IN IF a = Undef THEN Undef ELSE Defined(Fold1(n[1], a))
      [] n[1] \in Binary ->
            LET a == Meaning(n[2], env)
                b == Meaning(n[3], env)
            IN IF a = Undef \/ b = Undef THEN Undef
               ELSE Defined(Fold2(n[1], a, b))

\* The assignments of numbers to the symbols.
Envs == [Names -> {Int2Num(i) : i \in -1 .. MaxLit}]

NoDoubleNeg(t) ==
    \A u \in Subterms(t) : ~(u[1] = "Neg" /\ u[2][1] = "Neg")

\* ------------------------------------------------------------------------
\* Claims about Simplify (checked under SpecSimplify)
\* ------------------------------------------------------------------------

\* C1 as stated: for every expression e, e.Simplify().Simplify() renders to
\* the same string as e.Simplify(): one pass reaches a fixed point.
C1_Idempotent ==
    Len(ops) = 2 => to_string(cur) = to_string(prev)

\* C1 amended: a second Simplify pass changes nothing (same tree, same
\* string) whenever the first pass left no Negate directly under a Negate,
\* which is so in particular for every expression without a Subtract node.
C1_IdempotentWithoutDoubleNegate ==
    (Len(ops) = 2 /\ (NoDoubleNeg(prev) \/ "Sub" \notin Classes(expr)))
        => (cur = prev /\ to_string(cur) = to_string(prev)
            /\ NoDoubleNeg(prev))

\* C1 witness: the first pass rewrote an expression holding a Subtract and
\* a Negate, and the second pass left the result alone.
C1_Witness ==
    /\ Len(ops) = 2
    /\ {"Sub", "Neg"} \subseteq Classes(expr)
    /\ prev # expr
    /\ ~has_value(prev)
    /\ cur = prev

\* C4 as stated: for every expression and every assignment, e.Simplify()
\* evaluates to what e evaluates to: the same number, or both undefined.
C4_SameMeaning ==
    Len(ops) = 1 => \A env \in Envs : Meaning(cur, env) = Meaning(expr, env)

\* C4 amended: under every assignment for which e has a value (every
\* operation in e is defined there), e.Simplify() has that same value.
C4_SameMeaningWhereDefined ==
    Len(ops) = 1 =>
        \A env \in Envs :
            Meaning(expr, env) # Undef => Meaning(cur, env) = Meaning(expr, env)

\* C4 witness: Simplify cancelled exp(log(a)) and the expression has a
\* value under some assignment.
C4_Witness ==
    /\ Len(ops) = 1
    /\ expr[1] = "Exp" /\ expr[2][1] = "Log"
    /\ cur = Simplify(expr[2][2])
    /\ ~has_value(cur)
    /\ \E env \in Envs : Meaning(expr, env) # Undef

\* ------------------------------------------------------------------------
\* A client that differentiates by x, substitutes for x and simplifies
\* ------------------------------------------------------------------------

DeriveByX == ops = <<>> /\ SymExpDerive("x")

EvalAtX ==
    /\ Len(ops) = 1
    /\ ops[1][1] = "Derive"
    /\ \E c \in EvalVals : SymExpEval("x", c)

SimplifyDerivative ==
    /\ ops # <<>>
    /\ Last(ops)[1] # "Simplify"
    /\ SymExpSimplify

NextDerive ==
    (DeriveByX \/ EvalAtX \/ SimplifyDerivative)
        /\ UNCHANGED <<heapVars, counterVars>>

SpecDerive == InitBuilt /\ [][NextDerive]_vars

\* A polynomial in x with integer coefficients: element i is the
\* coefficient of x^(i-1).
PolyGet(p, i) == IF i <= Len(p) THEN p[i] ELSE 0

PolyAdd(p, q) ==
    [i \in 1 .. (IF Len(p) > Len(q) THEN Len(p) ELSE Len(q))
        |-> PolyGet(p, i) + PolyGet(q, i)]

PolyNeg(p) == [i \in 1 .. Len(p) |-> -p[i]]

RECURSIVE SumTo(_, _, _, _)
SumTo(p, q, k, j) ==
    IF j > k THEN 0
    ELSE PolyGet(p, j) * PolyGet(q, k + 1 - j) + SumTo(p, q, k, j + 1)

PolyMul(p, q) == [k \in 1 .. (Len(p) + Len(q) - 1) |-> SumTo(p, q, k, 1)]

IsPoly(n) ==
    /\ Classes(n) \subseteq {"Value", "Symbol", "Neg", "Add", "Sub", "Mul"}
    /\ Symbols(n) \subseteq {"x"}
    /\ \A u \in Subterms(n) : u[1] = "Value" => IsInt(u[2])

RECURSIVE PolyOf(_)
PolyOf(n) ==
    CASE n[1] = "Value" -> <<n[2][2]>>
      [] n[1] = "Symbol" -> <<0, 1>>
      [] n[1] = "Neg" -> PolyNeg(PolyOf(n[2]))
      [] n[1] = "Add" -> PolyAdd(PolyOf(n[2]), PolyOf(n[3]))
      [] n[1] = "Sub" -> PolyAdd(PolyOf(n[2]), PolyNeg(PolyOf(n[3])))
      [] n[1] = "Mul" -> PolyMul(PolyOf(n[2]), PolyOf(n[3]))

\* p'(c) = sum of (i-1) * p[i] * c^(i-2)
RECURSIVE PolyDerivAtFrom(_, _, _, _)
PolyDerivAtFrom(p, c, i, cpow) ==
    IF i > Len(p) THEN 0
    ELSE (i - 1) * p[i] * cpow + PolyDerivAtFrom(p, c, i + 1, cpow * c)

PolyDerivAt(p, c) == PolyDerivAtFrom(p, c, 2, 1)

\* The simplification of t folded no constant to a value that is not
\* finite (NaN, +inf, -inf).
FoldsFinite(t) ==
    \A u \in Subterms(t) :
        LET su == Simplify(u) IN has_value(su) => IsFinite(value(su))

\* ------------------------------------------------------------------------
\* Claims about Derive (checked under SpecDerive)
\* ------------------------------------------------------------------------

\* C3: for every polynomial f (integer Literals, the Symbol x, Negate, Add,
\* Subtract, Multiply) and every integer c,
\* f.Derive(x).Evaluate(x, c).Simplify() is a Literal whose value is f'(c).
C3_DerivativeOfPolynomial ==
    (Len(ops) = 3 /\ IsPoly(expr)) =>
        /\ has_value(cur)
        /\ value(cur) = Int2Num(PolyDerivAt(PolyOf(expr), ops[2][3][2]))

\* C3 witness: f = x*x differentiated, evaluated at 2 and simplified to 4.
C3_Witness ==
    /\ expr = Mul(Symbol("x"), Symbol("x"))
    /\ ops = <<<<"Derive", "x">>, <<"Eval", "x", Int2Num(2)>>, <<"Simplify">>>>
    /\ cur = Value(Int2Num(4))

MaxEvalNodes == 3

\* Longest variable list; a value list is at most one shorter or longer.
MaxList == 2

SubstVals == {Int2Num(i) : i \in 1 .. MaxLit}

VarLists == UNION {[1 .. k -> Names] : k \in 0 .. MaxList}

ValLists == UNION {[1 .. k -> SubstVals] : k \in 0 .. MaxList + 1}

InitEval ==
    /\ expr \in Trees(MaxEvalNodes)
    /\ cur = expr
    /\ prev = expr
    /\ ops = <<>>
    /\ exc = "none"
    /\ got = NoCall
    /\ InitNoHandles
    /\ InitNoThreads

Running == exc = "none" /\ got = NoCall

EvalOne ==
    /\ Running
    /\ Len(ops) < MaxList
    /\ \A i \in 1 .. Len(ops) : ops[i][1] = "Eval"
    /\ \E s \in Names, c \in SubstVals : SymExpEval(s, c)

EvalMany ==
    /\ Running
    /\ ops = <<>>
    /\ \E vs \in VarLists, vals \in ValLists :
          /\ Abs(Len(vs) - Len(vals)) <= 1
          /\ SymExpEvalAll(vs, vals)

SimplifyEvaluated ==
    /\ Running
    /\ ops # <<>>
    /\ Last(ops)[1] \in {"Eval", "EvalAll"}
    /\ SymExpSimplify

\* value() on the handle the client got back, or on the one it built when
\* the call threw.
CallValue ==
    /\ got = NoCall
    /\ SymExpValue(IF cur = NoResult THEN expr ELSE cur)

\* The client is in a catch block of its own: an exception is being handled.
EnterHandler ==
    /\ Running
    /\ ops = <<>>
    /\ exc' = "ClientException"
    /\ ops' = Append(ops, <<"catch">>)
    /\ UNCHANGED <<expr, cur, prev, got>>

NextEval ==
    (EvalOne \/ EvalMany \/ SimplifyEvaluated \/ EnterHandler \/ CallValue)
        /\ UNCHANGED <<heapVars, counterVars>>

SpecEval == InitEval /\ [][NextEval]_vars

\* e with every Symbol named in dom replaced by the Literal env gives it.
RECURSIVE Subst(_, _, _)
Subst(n, dom, env) ==
    CASE n[1] = "Value" -> n
      [] n[1] = "Symbol" -> (IF n[2] \in dom THEN Value(env[n[2]]) ELSE n)
      [] n[1] \in Unary -> <<n[1], Subst(n[2], dom, env)>>
      [] n[1] \in Binary -> <<n[1], Subst(n[2], dom, env), Subst(n[3], dom, env)>>

Range(q) == {q[i] : i \in 1 .. Len(q)}

FirstIndex(vs, s) == CHOOSE i \in 1 .. Len(vs) :
                        vs[i] = s /\ \A j \in 1 .. i - 1 : vs[j] # s

\* The value paired with the first occurrence of each listed variable.
FirstEnv(vs, vals) == [s \in Range(vs) |-> vals[FirstIndex(vs, s)]]

\* e.Evaluate(v1, c1).Evaluate(v2, c2)...Evaluate(vk, ck)
RECURSIVE Chain(_, _, _, _)
Chain(n, vs, vals, k) ==
    IF k = 0 THEN n ELSE Eval(Chain(n, vs, vals, k - 1), vs[k], vals[k])

OnlyEvals == ops # <<>> /\ \A i \in 1 .. Len(ops) : ops[i][1] = "Eval"

\* ------------------------------------------------------------------------
\* Claims about Evaluate and value (checked under SpecEval)
\* ------------------------------------------------------------------------

\* C2 as stated: for every expression e whose only free symbol is v and
\* every number c, e.Evaluate(v, c) alone has has_value() true and value()
\* equal to the value of e at v = c.
C2_EvaluateAloneGivesValue ==
    (Len(ops) = 1 /\ ops[1][1] = "Eval" /\ Symbols(expr) = {ops[1][2]})
        => /\ has_value(cur)
           /\ value(cur) = Meaning(expr, [s \in Names |-> ops[1][3]])

\* C2 amended: for every expression e whose only free symbol is v and every
\* number c, e.Evaluate(v, c).Simplify() has has_value() true, and its
\* value() is the value of e at v = c wherever e has one; Evaluate alone
\* returns a Literal only when e is a single Literal or Symbol node.
C2_EvaluateThenSimplifyGivesValue ==
    /\ (Len(ops) = 2 /\ ops[1][1] = "Eval" /\ ops[2][1] = "Simplify"
            /\ Symbols(expr) \subseteq {ops[1][2]})
        => /\ has_value(cur)
           /\ LET m == Meaning(expr, [s \in Names |-> ops[1][3]])
              IN m # Undef => value(cur) = m
    /\ (Len(ops) = 1 /\ ops[1][1] = "Eval" /\ Symbols(expr) \subseteq {ops[1][2]})
        => (has_value(cur) <=> expr[1] \in {"Value", "Symbol"})

\* C2 witness: (x*x).Evaluate(x, 2).Simplify() is the Literal 4.
C2_Witness ==
    /\ expr = Mul(Symbol("x"), Symbol("x"))
    /\ ops = <<<<"Eval", "x", Int2Num(2)>>, <<"Simplify">>>>
    /\ prev = Mul(Value(Int2Num(2)), Value(Int2Num(2)))
    /\ cur = Value(Int2Num(4))

\* C5: Evaluate(list, list) with lists of different lengths fails with
\* ArityMismatch and returns no result; with equal lengths it returns a
\* result and raises no ArityMismatch.
C5_ArityMismatch ==
    (ops # <<>> /\ Last(ops)[1] = "EvalAll") =>
        IF Len(Last(ops)[2]) # Len(Last(ops)[3])
        THEN exc = "ArityMismatch" /\ cur = NoResult
        ELSE exc = "none" /\ cur # NoResult

\* C5 witness: two variables and three values.
C5_Witness ==
    /\ ops # <<>> /\ Last(ops)[1] = "EvalAll"
    /\ Len(Last(ops)[2]) = 2 /\ Len(Last(ops)[3]) = 3
    /\ exc = "ArityMismatch"

\* C8: has_value() is true exactly for a Literal root, value() then returns
\* the stored number, and value() on any other node ends the process (a
\* fatal contract violation), never returning to the caller.
C8_ValueOnlyOfLiteral ==
    got # NoCall =>
        IF has_value(got[2])
        THEN got[2][1] = "Value" /\ got[1] = <<"returned", got[2][2]>>
        ELSE got[2][1] # "Value" /\ got[1] = <<"terminate">>

\* C9: Evaluate(list, list) with equal-length lists returns the tree of the
\* chain of single Evaluates, left to right: each listed variable is
\* replaced by the value paired with its first occurrence, and the symbols
\* not listed stay.
C9_ListIsChain ==
    /\ (ops # <<>> /\ Last(ops)[1] = "EvalAll" /\ cur # NoResult) =>
        LET vs == Last(ops)[2]
            vals == Last(ops)[3]
        IN /\ cur = Chain(expr, vs, vals, Len(vs))
           /\ cur = Subst(expr, Range(vs), FirstEnv(vs, vals))
           /\ Symbols(cur) = Symbols(expr) \ Range(vs)
    /\ OnlyEvals =>
        LET vs == [i \in 1 .. Len(ops) |-> ops[i][2]]
            vals == [i \in 1 .. Len(ops) |-> ops[i][3]]
        IN cur = Subst(expr, Range(vs), FirstEnv(vs, vals))

\* C9 witness: x - y evaluated with the list [x, x] and values [1, 2]: the
\* first value is substituted and y stays.
C9_Witness ==
    /\ expr = Sub(Symbol("x"), Symbol("y"))
    /\ ops = <<<<"EvalAll", <<"x", "x">>, <<Int2Num(1), Int2Num(2)>>>>>>
    /\ cur = Sub(Value(Int2Num(1)), Symbol("y"))

\* ------------------------------------------------------------------------
\* Threads constructing anonymous symbols: Symbol::Symbol()
\* ------------------------------------------------------------------------

\* Threads, and the anonymous symbols each constructs.
MaxThreads == 3
MaxAnonymous == 2

Threads == 1 .. MaxThreads

InitThreads ==
    /\ counter = 0
    /\ pc = [t \in Threads |-> "idle"]
    /\ reg = [t \in Threads |-> 0]
    /\ names = [t \in Threads |-> <<>>]
    /\ expr = Value(Zero)
    /\ cur = expr
    /\ prev = expr
    /\ ops = <<>>
    /\ exc = "none"
    /\ got = NoCall
    /\ InitNoHandles

\* counter++ on a plain static int, first half: the read.
CounterLoad(t) ==
    /\ pc[t] = "idle"
    /\ Len(names[t]) < MaxAnonymous
    /\ reg' = [reg EXCEPT ![t] = counter]
    /\ pc' = [pc EXCEPT ![t] = "loaded"]
    /\ UNCHANGED <<counter, names>>

\* counter++, second half: the write of the value read plus one; the name
\* is '$' + std::to_string of the value read.
CounterStore(t) ==
    /\ pc[t] = "loaded"
    /\ counter' = reg[t] + 1
    /\ names' = [names EXCEPT ![t] = Append(@, "$" \o ToString(reg[t]))]
    /\ pc' = [pc EXCEPT ![t] = "idle"]
    /\ UNCHANGED reg

NextCounter ==
    (\E t \in Threads : CounterLoad(t) \/ CounterStore(t))
        /\ UNCHANGED <<treeVars, heapVars>>

SpecCounter == InitThreads /\ [][NextCounter]_vars

\* The constructions completed: thread t's i-th.
Constructed ==
    {c \in (DOMAIN names) \X (1 .. MaxAnonymous) : c[2] <= Len(names[c[1]])}

\* C7: anonymous names are unique under concurrency: no two constructions,
\* in any interleaving, get the same name, and no increment is lost: with
\* no construction under way the counter is the number of constructions.
C7_UniqueAnonymousNames ==
    /\ \A a, b \in Constructed : a # b => names[a[1]][a[2]] # names[b[1]][b[2]]
    /\ (\A t \in DOMAIN pc : pc[t] = "idle") => counter = Cardinality(Constructed)

\* ------------------------------------------------------------------------
\* Handles over the free store: std::unique_ptr<AST::Node> root
\* ------------------------------------------------------------------------

\* Cells of the free store, and SymExp variables of the client.
MaxHeap == 5
MaxHandles == 3

\* Copy assignments the client makes.
MaxAssign == 2

Addrs == 1 .. MaxHeap
Handles == 1 .. MaxHandles
Null == 0
Free == <<"free">>

FreeAddrs(hp) == {a \in Addrs : hp[a] = Free}

\* new: the node goes to a free cell.
Alloc(hp, node) ==
    LET a == CHOOSE f \in FreeAddrs(hp) : \A g \in FreeAddrs(hp) : f <= g
    IN <<[hp EXCEPT ![a] = node], a>>

\* The addresses of the nodes of the tree rooted at a.
RECURSIVE NodesAt(_, _)
NodesAt(hp, a) ==
    CASE hp[a][1] \in {"Value", "Symbol", "free"} -> {a}
      [] hp[a][1] \in Unary -> {a} \cup NodesAt(hp, hp[a][2])
      [] hp[a][1] \in Binary ->
            {a} \cup NodesAt(hp, hp[a][2]) \cup NodesAt(hp, hp[a][3])

\* The expression rooted at a.
RECURSIVE TreeAt(_, _)
TreeAt(hp, a) ==
    CASE hp[a][1] \in {"Value", "Symbol", "free"} -> hp[a]
      [] hp[a][1] \in Unary -> <<hp[a][1], TreeAt(hp, hp[a][2])>>
      [] hp[a][1] \in Binary ->
            <<hp[a][1], TreeAt(hp, hp[a][2]), TreeAt(hp, hp[a][3])>>

RECURSIVE NodeCount(_)
NodeCount(n) ==
    CASE n[1] \in {"Value", "Symbol"} -> 1
      [] n[1] \in Unary -> 1 + NodeCount(n[2])
      [] n[1] \in Binary -> 1 + NodeCount(n[2]) + NodeCount(n[3])

\* A copy that hands out the node itself instead of a new one.
SharedClone(hp, a) == <<hp, a>>

\* Node::Clone on the free store, per class: std::make_unique of the class
\* over the clones of the children.  <<the store after, the clone's address>>
RECURSIVE CloneAt(_, _)
CloneAt(hp, a) ==
    CASE hp[a][1] \in {"Value", "Symbol"} -> Alloc(hp, hp[a])
      [] hp[a][1] \in Unary ->
            LET c == CloneAt(hp, hp[a][2])
            IN Alloc(c[1], <<hp[a][1], c[2]>>)
      [] hp[a][1] \in Binary ->
            LET l == CloneAt(hp, hp[a][2])
                r == CloneAt(l[1], hp[a][3])
            IN Alloc(r[1], <<hp[a][1], l[2], r[2]>>)

\* The nodes of a tree an operation returns, made one std::make_unique at
\* a time.
RECURSIVE BuildAt(_, _)
BuildAt(hp, n) ==
    CASE n[1] \in {"Value", "Symbol"} -> Alloc(hp, n)
      [] n[1] \in Unary ->
            LET c == BuildAt(hp, n[2]) IN Alloc(c[1], <<n[1], c[2]>>)
      [] n[1] \in Binary ->
            LET l == BuildAt(hp, n[2])
                r == BuildAt(l[1], n[3])
            IN Alloc(r[1], <<n[1], l[2], r[2]>>)

\* ~unique_ptr: the node and, through its members, its subtree.
Release(hp, a) ==
    [b \in Addrs |-> IF b \in NodesAt(hp, a) THEN Free ELSE hp[b]]

Live(h) == handle[h] # Null

\* The variable the client declares next.
Fresh(d) == ~Live(d) /\ \A g \in Handles : g < d => Live(g)
Room(k) == Cardinality(FreeAddrs(heap)) >= k
SizeOf(h) == Cardinality(NodesAt(heap, handle[h]))

InitHandles ==
    /\ heap = [a \in Addrs |-> Free]
    /\ handle = [h \in Handles |-> Null]
    /\ assigned = 0
    /\ expr = Value(Zero)
    /\ cur = expr
    /\ prev = expr
    /\ ops = <<>>
    /\ exc = "none"
    /\ got = NoCall
    /\ InitNoThreads

\* Var::Var(std::string) and Var::Var(double): a handle on one new leaf.
VarConstruct(d, leaf) ==
    /\ Fresh(d)
    /\ Room(1)
    /\ LET r == Alloc(heap, leaf)
       IN /\ heap' = r[1]
          /\ handle' = [handle EXCEPT ![d] = r[2]]
          /\ UNCHANGED assigned

\* SymExp::SymExp(const SymExp&): the new handle owns a clone of the root.
CopyConstruct(d, h) ==
    /\ Fresh(d) /\ Live(h)
    /\ Room(SizeOf(h))
    /\ LET r == CloneAt(heap, handle[h])
       IN /\ heap' = r[1]
          /\ handle' = [handle EXCEPT ![d] = r[2]]
          /\ UNCHANGED assigned

\* SymExp::operator=(const SymExp&): a clone replaces what d owned.
CopyAssign(d, h) ==
    /\ Live(d) /\ Live(h) /\ d # h
    /\ assigned < MaxAssign
    /\ Room(SizeOf(h))
    /\ LET r == CloneAt(heap, handle[h])
       IN /\ heap' = Release(r[1], handle[d])
          /\ handle' = [handle EXCEPT ![d] = r[2]]
          /\ assigned' = assigned + 1

\* operator-(SymExp), exp(SymExp), log(SymExp) called on the variable h:
\* the by-value parameter is a copy, whose root becomes the child.
UnaryOperator(k, d, h) ==
    /\ Fresh(d) /\ Live(h)
    /\ Room(SizeOf(h) + 1)
    /\ LET c == CloneAt(heap, handle[h])
           r == Alloc(c[1], <<k, c[2]>>)
       IN /\ heap' = r[1]
          /\ handle' = [handle EXCEPT ![d] = r[2]]
          /\ UNCHANGED assigned

\* operator+, -, *, /, pow(SymExp, SymExp) called on the variables h1, h2.
BinaryOperator(k, d, h1, h2) ==
    /\ Fresh(d) /\ Live(h1) /\ Live(h2)
    /\ Room(SizeOf(h1) + SizeOf(h2) + 1)
    /\ LET l == CloneAt(heap, handle[h1])
           r == CloneAt(l[1], handle[h2])
           n == Alloc(r[1], <<k, l[2], r[2]>>)
       IN /\ heap' = n[1]
          /\ handle' = [handle EXCEPT ![d] = n[2]]
          /\ UNCHANGED assigned

\* The client goes on only with the literals 0 and 1.
SmallLiterals(n) ==
    \A u \in Subterms(n) : u[1] = "Value" => u[2] \in {Zero, One}

\* A const member (Eval, Derive, Simplify) called on h: the handle it
\* returns owns the nodes of the tree the node operation returns.
Returned(d, h, n) ==
    /\ Fresh(d) /\ Live(h)
    /\ Room(NodeCount(n))
    /\ SmallLiterals(n)
    /\ LET r == BuildAt(heap, n)
       IN /\ heap' = r[1]
          /\ handle' = [handle EXCEPT ![d] = r[2]]
          /\ UNCHANGED assigned

HandleEval(d, h, s, val) ==
    Returned(d, h, Eval(TreeAt(heap, handle[h]), s, val))

HandleDerive(d, h, s) ==
    Returned(d, h, Derive(TreeAt(heap, handle[h]), s))

HandleSimplify(d, h) ==
    Returned(d, h, Simplify(TreeAt(heap, handle[h])))

NextHandle ==
    /\ \/ \E d \in Handles, leaf \in {Symbol("x"), Value(One)} : VarConstruct(d, leaf)
       \/ \E d, h \in Handles : CopyConstruct(d, h)
       \/ \E d, h \in Handles : CopyAssign(d, h)
       \/ \E d, h \in Handles, k \in Unary : UnaryOperator(k, d, h)
       \/ \E d, h1, h2 \in Handles, k \in Binary : BinaryOperator(k, d, h1, h2)
       \/ \E d, h \in Handles : HandleEval(d, h, "x", One)
       \/ \E d, h \in Handles : HandleDerive(d, h, "x")
       \/ \E d, h \in Handles : HandleSimplify(d, h)
    /\ UNCHANGED <<treeVars, counterVars>>

SpecHandle == InitHandles /\ [][NextHandle]_vars

\* No node is reached from two handles, or twice from one.
NoSharedNode(hp, hd) ==
    /\ \A g1, g2 \in Handles :
          (g1 # g2 /\ hd[g1] # Null /\ hd[g2] # Null)
             => NodesAt(hp, hd[g1]) \cap NodesAt(hp, hd[g2]) = {}
    /\ \A g \in Handles :
          hd[g] # Null
             => Cardinality(NodesAt(hp, hd[g])) = NodeCount(TreeAt(hp, hd[g]))

\* C6: an arithmetic operator, Eval, Derive, Simplify or a handle copy leaves
\* every handle it does not assign to with the same root and the same tree,
\* hence the same rendered string (to_string reads nothing but the tree),
\* and no two handles ever reach a common node, so that a later operation
\* on one expression cannot change another.
C6_OperandsUnchanged ==
    /\ []NoSharedNode(heap, handle)
    /\ [][ \A g \in Handles :
             Live(g) =>
                \/ /\ handle'[g] = handle[g]
                   /\ TreeAt(heap', handle'[g]) = TreeAt(heap, handle[g])
                \/ \E h \in Handles : CopyAssign(g, h) ]_vars

\* The handle 1 has been composed into the two different expressions of
\* the handles 2 and 3, and all three are alive.
C6_Witness ==
    /\ \A g \in 1 .. 3 : Live(g)
    /\ TreeAt(heap, handle[1]) \in Subterms(TreeAt(heap, handle[2]))
    /\ TreeAt(heap, handle[1]) \in Subterms(TreeAt(heap, handle[3]))
    /\ TreeAt(heap, handle[2]) # TreeAt(heap, handle[1])
    /\ TreeAt(heap, handle[3]) # TreeAt(heap, handle[1])
    /\ TreeAt(heap, handle[2]) # TreeAt(heap, handle[3])

=============================================================================
